---- MODULE Spec2Model ----
(***************************************************************************)
(* State-machine model of the interactive coffee-cup scene: the particle   *)
(* fountain (CoffeeParticles), the pointer-drag controllers of the cup,    *)
(* the desk and the lamp, the lamp head's collision gate, the cup's        *)
(* vertical-drop physics and the CPU ripple of the liquid lid.             *)
(*                                                                         *)
(* Real numbers are fixed point.  Particle lengths are in 1/10000 of a     *)
(* scene unit, drag and physics lengths in 1/1000, liquid heights in       *)
(* 1/1000000.  Angles are in 1/1000 of PI.  Frame time is in ticks of      *)
(* 1/60 s.  Every division rounds down, as a stand-in for float rounding.  *)
(***************************************************************************)
EXTENDS Integers, Naturals, Sequences, FiniteSets, TLC

VARIABLES
  \* ---- CoffeeParticles
  spread,        \* prop spread, fixed after construction
  parts,         \* per particle index: position buffer (x, y, z), speeds.current (sp), phases.current (ph)
  elapsed,       \* state.clock.getElapsedTime(), in ticks
  frames,        \* number of frame callbacks run so far
  \* ---- CoffeeSteam
  meshes,        \* per column: the mesh's local position (x, y, z) and its material's uTime
  \* ---- scene: CoffeeCup, Desk, Lamp and SceneCanvas
  focus,         \* the object the user's pointer-downs land on in this run, or "any"
  draggable,     \* prop draggable of CoffeeCup, Desk and Lamp
  deskEnabled,        \* CoffeeCup is given deskCenter, deskTopY, deskSize, dragPlaneY, deskOrigin
  pos,           \* groupRef.current.position of "cup", "desk", "lamp"
  dragging,      \* the state dragging of cup, desk, lamp; draggingHead for "head"
  seen,          \* dragging as captured by the listeners the last effect run registered
  dragOffset,    \* dragOffset.current of cup, desk, lamp (own: history, whether it was
                 \* stored since the object's latest session began)
  seenCenter,    \* deskOrigin props as captured by the cup's registered handleMove
  startHead,     \* startHead.current
  armYaw,        \* armPivotRef.current.rotation.y
  headPitch,     \* headPivotRef.current.rotation.x
  sceneDragging, \* SceneCanvas state dragging (set through onDragChange)
  deskPos,       \* SceneCanvas state deskPos (set through Desk's onPositionChange)
  deskProp,      \* deskPos as of the last render: the props the children hold
  reported,      \* last argument of onPositionChange of cup and lamp
  prevDeskOrigin, \* prevDeskOrigin.current
  yVel,          \* yVel.current
  physics,       \* CoffeeCup prop physics
  sessions,      \* pointer-downs so far
  didInit,       \* didInit.current of CoffeeCup: the mount effects have run
  deskMovedInDrag, \* history: a pointer-move has moved the desk during a cup session
  \* ---- the liquid disc of CoffeeCup
  coffee,        \* prop coffee
  variant,       \* prop variant
  coffeeShader,  \* prop coffeeShader: the liquid disc has the CoffeeLiquidMaterial shader
  geom,          \* coffeeGeomRef.current: its position attribute's array, or none
  originalPositions, \* originalPositions.current
  ev             \* the event or step that produced this state

particleVars == <<spread, parts, elapsed, frames, meshes>>

sceneVars == <<focus, draggable, deskEnabled, pos, dragging, seen, dragOffset, seenCenter, startHead,
               armYaw, headPitch, sceneDragging, deskPos, deskProp, reported,
               prevDeskOrigin, yVel, physics, sessions, didInit, deskMovedInDrag, ev>>

liquidVars == <<coffee, variant, coffeeShader, geom, originalPositions>>

vars == <<particleVars, sceneVars, liquidVars>>

-----------------------------------------------------------------------------
(* Numeric helpers *)

Min(a, b) == IF a < b THEN a ELSE b
Max(a, b) == IF a > b THEN a ELSE b
Abs(a) == IF a < 0 THEN -a ELSE a
Clamp(v, lo, hi) == Min(Max(v, lo), hi)

RECURSIVE SqrtIter(_, _, _)
SqrtIter(n, lo, hi) ==
  IF lo >= hi THEN lo
  ELSE CHOOSE r \in {IF mid * mid <= n THEN SqrtIter(n, mid, hi) ELSE SqrtIter(n, lo, mid - 1) :
                        mid \in {(lo + hi + 1) \div 2}} : TRUE

\* Math.sqrt, rounded down to the fixed-point grid
Sqrt(n) == CHOOSE r \in {SqrtIter(v, 0, 46340) : v \in {n}} : TRUE

\* sin on [0, PI], angle a in 1/1000 of PI, result in 1/1000 (Bhaskara's rational form)
SinHalf(a) == LET q == a * (1000 - a) IN (4000 * q) \div (1250000 - q)

\* Math.sin, angle in 1/1000 of PI, result in 1/1000
Sin(a) == LET m == a % 2000 IN IF m < 1000 THEN SinHalf(m) ELSE -SinHalf(m - 1000)

\* Math.cos
Cos(a) == Sin(a + 500)

\* MathUtils.lerp(x, y, t) with t in 1/10000
Lerp(x, y, t) == x + ((y - x) * t) \div 10000

-----------------------------------------------------------------------------
(* CoffeeParticles: props (defaults of the component) *)

count == 2
baseY == 0
height == 12000
speedMin == 2000
speedMax == 5500
swirlStep == 112            \* swirl * 0.035 with swirl = 0.32
constrainInside == TRUE
cupInnerRadiusTop == 7300
cupInnerRadiusBottom == 5900
cupBottomY == -6000
rimY == 6000
innerMargin == 250
wallEpsilon == 30
rimSlack == 50              \* the 0.005 of "rimY + 0.005"
seedBand == 1200            \* the 0.12 of the initial height draw
respawnBand == 1000         \* the 0.1 of the respawn height draw
sectorBoost == 0
sectorYMaxRatio == 10000
defaultSpread == 3500

\* values of the spread prop: the default, and a disc wider than the cup
Spreads == {defaultSpread, 8000}

Particles == 1 .. count

\* One run of Math.random() draws for a seed or a respawn: the angle a (1/1000 PI)
\* and four uniform draws in 1/1000, for the radius, the height, the speed and
\* the phase.
Draws ==
  { [a |-> 0,    rR |-> 999, rY |-> 0,   rU |-> 0,   rPh |-> 0],
    [a |-> 250,  rR |-> 999, rY |-> 999, rU |-> 999, rPh |-> 500],
    [a |-> 1250, rR |-> 250, rY |-> 500, rU |-> 500, rPh |-> 250],
    [a |-> 1000, rR |-> 640, rY |-> 999, rU |-> 999, rPh |-> 750] }

\* ty = clamp((y - cupBottomY) / max(1e-6, rimY - cupBottomY), 0, 1), in 1/10000
HeightRatio(y) ==
  Clamp(((y - cupBottomY) * 10000) \div Max(1, rimY - cupBottomY), 0, 10000)

\* faulty variant: the wall radius itself, no innerMargin and no wallEpsilon
AllowedRNoMargin(x, y, z) ==
  Lerp(cupInnerRadiusBottom, cupInnerRadiusTop, HeightRatio(y))

\* allowedR at (x, y, z).  The angleBoost reduction of the source is guarded by
\* angleBoost > 0 and is dead at the default angleBoost = 0.
AllowedR(x, y, z) ==
  Lerp(cupInnerRadiusBottom, cupInnerRadiusTop, HeightRatio(y)) - innerMargin - wallEpsilon
    - (IF x > 0 /\ z > 0 /\ HeightRatio(y) <= sectorYMaxRatio THEN sectorBoost ELSE 0)

\* faulty variant: each coordinate is clamped on its own
RescalePerAxis(x, z, allowedR, rr) ==
  [x |-> Clamp(x, -allowedR, allowedR), z |-> Clamp(z, -allowedR, allowedR)]

\* "if (rr > allowedR) { scale = allowedR / rr; x *= scale; z *= scale }"
Rescale(x, z, allowedR, rr) ==
  IF rr > allowedR
  THEN [x |-> (x * allowedR) \div Max(rr, 1), z |-> (z * allowedR) \div Max(rr, 1)]
  ELSE [x |-> x, z |-> z]

Contain(x, y, z) ==
  IF constrainInside
  THEN CHOOSE c \in {Rescale(x, z, AllowedR(x, y, z), Sqrt(x * x + z * z))} : TRUE
  ELSE [x |-> x, z |-> z]

\* a seed: position, speed and phase from one run of draws, at height y
Seed(d, sprd, y) ==
  LET r == (Sqrt(d.rR * 1000) * sprd) \div 1000
      c == Contain((Cos(d.a) * r) \div 1000, y, (Sin(d.a) * r) \div 1000)
  IN  [x |-> c.x, y |-> y, z |-> c.z,
       sp |-> Lerp(speedMin, speedMax, d.rU * 10),
       ph |-> d.rPh * 2]

\* posAttr (useMemo): the initial entry of a particle
InitialSeed(d, sprd) == Seed(d, sprd, baseY + (d.rY * seedBand) \div 1000)

\* the respawn branch of useFrame
Respawn(d, sprd) == Seed(d, sprd, baseY + (d.rY * respawnBand) \div 1000)

\* faulty variant: the height is not integrated
DriftStalled(i, dt, t) ==
  [x |-> parts[i].x + (Sin((t * 4509) \div 1000 + parts[i].ph) * swirlStep) \div 1000,
   y |-> parts[i].y,
   z |-> parts[i].z + (Cos((t * 3820) \div 1000 + parts[i].ph) * swirlStep) \div 1000,
   sp |-> parts[i].sp, ph |-> parts[i].ph]

\* the swirl and the integration of useFrame, without the containment
Drift(i, dt, t) ==
  [x |-> parts[i].x + (Sin((t * 4509) \div 1000 + parts[i].ph) * swirlStep) \div 1000,
   y |-> parts[i].y + (parts[i].sp * dt) \div 60,
   z |-> parts[i].z + (Cos((t * 3820) \div 1000 + parts[i].ph) * swirlStep) \div 1000,
   sp |-> parts[i].sp, ph |-> parts[i].ph]

\* faulty variant: a frame that never contains
AdvanceUncontained(i, dt, t) == Drift(i, dt, t)

\* useFrame for particle i up to the respawn test: integrate, swirl, contain
Advance(i, dt, t) ==
  LET p == CHOOSE q \in {Drift(i, dt, t)} : TRUE
  IN  IF p.y < rimY + rimSlack
      THEN LET c == Contain(p.x, p.y, p.z) IN [p EXCEPT !.x = c.x, !.z = c.z]
      ELSE p

\* faulty variant: the respawn test at twice the height
ExitsLate(p) == p.y > baseY + 2 * height

\* "if (arr[idx + 1] > baseY + height)"
Exits(p) == p.y > baseY + height

\* ---- CoffeeSteam as SceneCanvas mounts it: lengths in 1/10000, uTime in
\* 1/600000 s, the clock in ticks of 1/60 s

columns == 4
steamSpread == 1100         \* spread = 0.22 * cupScale
speed == 55                 \* 0.55, in 1/100
wobble == 300               \* 0.06 * cupScale
lift == 300                 \* the 0.03 of position.y

Columns == 0 .. columns - 1

\* offsets (useMemo): [cos(a) * spread, sin(a) * spread] with a = (i / columns) * 2 PI
Offsets(i) ==
  [x |-> (Cos((2000 * i) \div columns) * steamSpread) \div 1000,
   z |-> (Sin((2000 * i) \div columns) * steamSpread) \div 1000]

\* i radians in 1/1000 of PI
Phase(i) == (i * 3183) \div 10

\* the meshes as the JSX mounts them, before any frame
SteamMounted == [i \in Columns |-> [x |-> Offsets(i).x, y |-> 0, z |-> Offsets(i).z, uTime |-> 0]]

\* faulty variant: the jitter is added to the position the mesh has
SteamColumnAdding(i, t) ==
  [x |-> meshes[i].x + (Sin((t * 6366) \div 1000 + Phase(i)) * wobble) \div 1000,
   y |-> meshes[i].y + (Sin((t * 3714) \div 1000 + Phase(i)) * lift) \div 1000,
   z |-> meshes[i].z + (Cos((t * 5836) \div 1000 + Phase(i)) * wobble) \div 1000,
   uTime |-> t * speed * (100 + 7 * i)]

\* useFrame of CoffeeSteam for column i at clock t: position and uTime
SteamColumn(i, t) ==
  [x |-> Offsets(i).x + (Sin((t * 6366) \div 1000 + Phase(i)) * wobble) \div 1000,
   y |-> (Sin((t * 3714) \div 1000 + Phase(i)) * lift) \div 1000,
   z |-> Offsets(i).z + (Cos((t * 5836) \div 1000 + Phase(i)) * wobble) \div 1000,
   uTime |-> t * speed * (100 + 7 * i)]

InitParticles(spreads) ==
  /\ meshes = SteamMounted
  /\ spread \in spreads
  /\ \E d \in [Particles -> Draws] :
       parts = [i \in Particles |-> InitialSeed(d[i], spread)]
  /\ elapsed = 0
  /\ frames = 0

\* ---- the liquid disc: heights in 1/1000000, x and z in 1/1000

simpleSegments == 2             \* radial segments of the liquid cylinder, 'simple'
detailedSegments == 3           \* radial segments of the liquid cylinder, 'detailed'
simpleRadius == 700
simpleHalfHeight == 10000       \* 0.02 / 2
detailedRadius == 710
detailedHalfHeight == 11000     \* 0.022 / 2

\* a Float32Array of positions, or null
NoArray == [ok |-> FALSE, arr |-> <<>>]
Array(a) == [ok |-> TRUE, arr |-> a]

\* vertex k of a ring of n segments: (r sin, y, r cos)
RingVertex(r, y, k, n) ==
  << (r * Sin((2000 * k) \div n)) \div 1000, y, (r * Cos((2000 * k) \div n)) \div 1000 >>

\* the position array of cylinderGeometry(r, r, 2h, n, 1): the top row, then the
\* bottom row, n + 1 vertices each
CylinderPositions(r, h, n) ==
  [i \in 1 .. 2 * (n + 1) |->
     IF i <= n + 1 THEN RingVertex(r, h, i - 1, n) ELSE RingVertex(r, -h, i - n - 2, n)]

\* the geometry the cup's JSX mounts for the liquid
LiquidGeometry(c, v) ==
  IF ~c THEN NoArray
  ELSE IF v = "simple"
  THEN Array(CylinderPositions(simpleRadius, simpleHalfHeight, simpleSegments))
  ELSE Array(CylinderPositions(detailedRadius, detailedHalfHeight, detailedSegments))

\* radians (1/1000) to the angle unit of Sin
ToAngle(m) == (m * 318) \div 1000

\* "Math.sin(r * 10 - time * 2.2) * 0.003 + Math.sin((x + z + time) * 3) * 0.002"
Wave(x, z, time) ==
  3 * Sin(ToAngle(Sqrt(x * x + z * z) * 10 - (time * 22) \div 10))
    + 2 * Sin(ToAngle((x + z + time) * 3))

\* faulty variant: the capture without its null test
CapturedEveryFrame(base, a) == Array(a)

\* "if (!originalPositions.current) originalPositions.current = posAttr.array.slice()"
Captured(base, a) == IF base.ok THEN base ELSE Array(a)

\* the ripple loop: arr[i + 1] = yOrig + wave for the vertices whose rest height
\* is positive; a vertex past the end of base reads undefined and is skipped
Rippled(a, base, time) ==
  [i \in 1 .. Len(a) |->
     IF i <= Len(base) /\ base[i][2] > 0
     THEN <<a[i][1], base[i][2] + Wave(a[i][1], a[i][3], time), a[i][3]>>
     ELSE a[i]]

\* the scene as the particle specifications hold it: mounted and untouched
SceneIdle ==
  /\ focus = "none"
  /\ draggable = [c \in {"cup", "desk", "lamp"} |-> TRUE]
  /\ deskEnabled = TRUE
  /\ pos = [cup |-> [x |-> -1500, y |-> 395, z |-> 0],
            desk |-> [x |-> -1500, y |-> -700, z |-> 0],
            lamp |-> [x |-> -2500, y |-> 80, z |-> 400]]
  /\ dragging = [o \in {"cup", "desk", "lamp", "head"} |-> FALSE]
  /\ seen = [o \in {"cup", "desk", "lamp", "head"} |-> FALSE]
  /\ dragOffset = [o \in {"cup", "desk", "lamp"} |-> [ok |-> FALSE, x |-> 0, z |-> 0, own |-> FALSE]]
  /\ seenCenter = [x |-> -1500, y |-> -700, z |-> 0]
  /\ startHead = [ok |-> FALSE, mx |-> 0, my |-> 0, headX |-> 0, armY |-> 0]
  /\ armYaw = 0
  /\ headPitch = -80
  /\ sceneDragging = FALSE
  /\ deskPos = [x |-> -1500, y |-> -700, z |-> 0]
  /\ deskProp = [x |-> -1500, y |-> -700, z |-> 0]
  /\ reported = [cup |-> [x |-> -1500, y |-> 395, z |-> 0],
                 lamp |-> [x |-> -2500, y |-> 80, z |-> 400]]
  /\ prevDeskOrigin = [x |-> -1500, y |-> -700, z |-> 0]
  /\ yVel = 0
  /\ physics = TRUE
  /\ sessions = 0
  /\ didInit = TRUE
  /\ deskMovedInDrag = FALSE
  /\ coffee = TRUE
  /\ variant = "detailed"
  /\ coffeeShader = TRUE
  /\ geom = LiquidGeometry(TRUE, "detailed")
  /\ originalPositions = NoArray
  /\ ev = [kind |-> "mount", o |-> "none", e |-> [nx |-> 0, ny |-> 0, cup |-> [ok |-> FALSE, x |-> 0, z |-> 0], ground |-> [ok |-> FALSE, x |-> 0, z |-> 0]], dt |-> 0, fresh |-> FALSE, first |-> FALSE, hit |-> FALSE, hits |-> <<>>]

\* the whole useFrame callback of CoffeeParticles for a frame of dt ticks
ParticleFrame(dt) ==
  /\ elapsed' = elapsed + dt
  /\ frames' = frames + 1
  /\ \E adv \in {[i \in Particles |-> Advance(i, dt, elapsed + dt)]} :
       \E d \in [{i \in Particles : Exits(adv[i])} -> Draws] :
         parts' = [i \in Particles |->
                     IF Exits(adv[i]) THEN Respawn(d[i], spread) ELSE adv[i]]
  /\ UNCHANGED <<spread, meshes>>
  /\ UNCHANGED <<sceneVars, liquidVars>>

MaxFrames == 3
MaxScenarioFrames == 125

\* frame deltas in ticks of 1/60 s: none, one display frame, half a second, a stall
DtSet == {0, 1, 30, 120}

ParticleStep == frames < MaxFrames /\ \E dt \in DtSet : ParticleFrame(dt)

\* the end-to-end scenario: default props, dt = 1/60
ScenarioStep == frames < MaxScenarioFrames /\ ParticleFrame(1)

InitP == InitParticles(Spreads) /\ SceneIdle
InitS == InitParticles({defaultSpread}) /\ SceneIdle

SpecParticles == InitP /\ [][ParticleStep]_vars
SpecScenario == InitS /\ [][ScenarioStep]_vars

\* the frame callback for an unbounded run: the frames are not counted and the
\* clock, which only feeds the swirl, is kept modulo ClockPeriod
FountainTick == 30
ClockPeriod == 2 * FountainTick
FountainDts == {FountainTick}

FountainFrame(dt) ==
  /\ elapsed' = (elapsed + dt) % ClockPeriod
  /\ \E adv \in {[i \in Particles |-> Advance(i, dt, (elapsed + dt) % ClockPeriod)]} :
       \E d \in [{i \in Particles : Exits(adv[i])} -> Draws] :
         parts' = [i \in Particles |->
                     IF Exits(adv[i]) THEN Respawn(d[i], spread) ELSE adv[i]]
  /\ UNCHANGED <<spread, frames, meshes>>
  /\ UNCHANGED <<sceneVars, liquidVars>>

FountainStep == \E dt \in FountainDts : FountainFrame(dt)

\* the render loop keeps calling the frame callback, and frames with dt > 0 keep arriving
SpecFountain ==
  InitS /\ [][FountainStep]_vars
    /\ WF_vars(\E dt \in FountainDts : FountainFrame(dt))

\* the whole useFrame callback of CoffeeSteam for a frame of dt ticks (the
\* look-at turns the meshes only, and the group is put on its position prop)
SteamFrame(dt) ==
  /\ elapsed' = elapsed + dt
  /\ frames' = frames + 1
  /\ meshes' = [i \in Columns |-> SteamColumn(i, elapsed + dt)]
  /\ UNCHANGED <<spread, parts>>
  /\ UNCHANGED <<sceneVars, liquidVars>>

MaxSteamFrames == 6

SteamStep == frames < MaxSteamFrames /\ \E dt \in DtSet : SteamFrame(dt)

SpecSteam == InitS /\ [][SteamStep]_vars

-----------------------------------------------------------------------------
(* Claims about CoffeeParticles *)

Radius2(p) == p.x * p.x + p.z * p.z

\* lerp(cupInnerRadiusBottom, cupInnerRadiusTop, clamp(...)) - innerMargin
FormulaR(p) ==
  Lerp(cupInnerRadiusBottom, cupInnerRadiusTop, HeightRatio(p.y)) - innerMargin

WithinFormula(p) == Radius2(p) <= FormulaR(p) * FormulaR(p)

AtWall(p) == Sqrt(Radius2(p)) >= AllowedR(p.x, p.y, p.z) - 2

\* C1: after initialization and at the end of every frame, every particle whose
\* y is below rimY lies within lerp(bottom, top, normalized height) - innerMargin
\* of the axis.
C1_RadialContainment ==
  \A i \in Particles : parts[i].y < rimY => WithinFormula(parts[i])

\* a frame has run and left a particle below the rim on the allowed radius
C1_Witness ==
  /\ frames > 0
  /\ \E i \in Particles : parts[i].y < rimY /\ parts[i].y > seedBand /\ AtWall(parts[i])

InVolume(p) == baseY <= p.y /\ p.y <= baseY + height
InSeedBand(p) == baseY <= p.y /\ p.y < baseY + seedBand

\* C2: the pool keeps its count particles, every particle ends every frame with
\* baseY <= y <= baseY + height, and every initial seed and every respawn (the
\* only step that lowers y) places the particle in [baseY, baseY + 0.12).
C2_Recycling ==
  /\ [](DOMAIN parts = Particles /\ \A i \in Particles : InVolume(parts[i]))
  /\ [](frames = 0 => \A i \in Particles : InSeedBand(parts[i]))
  /\ [][\A i \in Particles : parts'[i].y < parts[i].y => InSeedBand(parts'[i])]_vars

\* a particle that has been respawned: more than a second has passed, so every
\* particle has risen out of the seed band at least once
C2_Witness ==
  /\ elapsed >= 120
  /\ \E i \in Particles : InSeedBand(parts[i])

\* C3 as stated: in the scenario every particle, below or above the rim, keeps
\* y in [0, 1.2] and a radius within the containment formula at its height.
C3_Original ==
  \A i \in Particles : InVolume(parts[i]) /\ WithinFormula(parts[i])

\* C3 amended: in the scenario every particle keeps y in [0, 1.2], and every
\* particle below rimY + 0.005 has a radius within the containment formula at
\* its height; above that height the radius is not constrained.
C3_Scenario ==
  \A i \in Particles :
    /\ InVolume(parts[i])
    /\ parts[i].y < rimY + rimSlack => WithinFormula(parts[i])

\* late in the scenario a particle below the rim is held on the allowed radius
C3_Witness ==
  /\ frames >= 100
  /\ \E i \in Particles : parts[i].y < rimY + rimSlack /\ AtWall(parts[i])


-----------------------------------------------------------------------------
(* The scene: CoffeeCup, Desk and Lamp as SceneCanvas wires them.             *)
(* Lengths in 1/1000 of a scene unit, lamp geometry in 1/10000.               *)

Objects == {"cup", "desk", "lamp"}
Sessions == {"cup", "desk", "lamp", "head"}

\* a Vector3 | null, reduced to the x and z a drag uses
NoPoint == [ok |-> FALSE, x |-> 0, z |-> 0]
Pt(x, z) == [ok |-> TRUE, x |-> x, z |-> z]
\* dragOffset.current: null, or the Vector3 a pointer-down stored
NoOffset == [ok |-> FALSE, x |-> 0, z |-> 0, own |-> FALSE]
Offset(x, z) == [ok |-> TRUE, x |-> x, z |-> z, own |-> TRUE]
NoStart == [ok |-> FALSE, mx |-> 0, my |-> 0, headX |-> 0, armY |-> 0]
V3(x, y, z) == [x |-> x, y |-> y, z |-> z]

\* SceneCanvas and component constants
cupHalfHeightScaled == 300      \* cupHalfHeight * scale = 0.6 * 0.5
clearance == 15                 \* 0.03 * scale
deskHeight == 780               \* the 0.78 of deskTopY and dragPlaneY
floorY == -700
gravity == 9800
halfW == 1500
halfD == 900
edgeMargin == 200
radiusLimit == 4000
deskStartX == -1500
deskStartY == -700
lampDX == -1000                 \* Lamp position = deskPos + (-1.0, 0.78, 0.4)
lampDZ == 400

\* Lamp constants
yawRange == 1000                \* Math.PI
pitchRange == 800               \* Math.PI * 0.8
minYaw == -750
maxYaw == 750
minPitch == -1000
maxPitch == 250
initialPitch == -80             \* rotation={[-0.25, 0, 0]}
bulbArm == 1760                 \* shadeLength * 0.55
bulbRadius == 700
tubeRadius == 450               \* stemRadius
safety == 100
headY == 8600                   \* baseHeight + stemHeight
headZ == 2000                   \* stemBend

\* sampleStemWorld: CatmullRomCurve3([p0, p1, p2, p3]).getPoint(0.6 + 0.4 i / 10),
\* i = 0..10, as (y, z) in the arm pivot's frame (x = 0).  The arm pivot's world
\* matrix moves these samples and the bulb alike, so distances are taken in
\* this frame.
StemSamples ==
  << <<6504, 767>>, <<6807, 908>>, <<7074, 1037>>, <<7288, 1150>>, <<7489, 1267>>,
     <<7680, 1387>>, <<7865, 1509>>, <<8047, 1633>>, <<8228, 1756>>, <<8412, 1879>>,
     <<8600, 2000>> >>

\* distPointToSegment(p, a, b)
DistPointToSegment(p, a, b) ==
  LET aby == b[1] - a[1]
      abz == b[2] - a[2]
      abLen2 == Max(1, aby * aby + abz * abz)
      t == Clamp((((p[1] - a[1]) * aby + (p[2] - a[2]) * abz) * 1000) \div abLen2, 0, 1000)
      cy == a[1] + (aby * t) \div 1000
      cz == a[2] + (abz * t) \div 1000
  IN  Sqrt((p[1] - cy) * (p[1] - cy) + (p[2] - cz) * (p[2] - cz))

\* bulbWorld for a candidate pitch: headPivot.localToWorld((0, -shadeLength * 0.55, 0))
BulbAt(pitch) ==
  << headY - (bulbArm * Cos(pitch)) \div 1000, headZ - (bulbArm * Sin(pitch)) \div 1000 >>

RECURSIVE MinDistFrom(_, _)
MinDistFrom(p, i) ==
  IF i >= Len(StemSamples) THEN 1000000
  ELSE Min(DistPointToSegment(p, StemSamples[i], StemSamples[i + 1]), MinDistFrom(p, i + 1))

\* minDist over the sampled stem segments
MinDist(pitch) == MinDistFrom(BulbAt(pitch), 1)

\* "const colliding = minDist < tubeRadius + bulbRadius - safety"
Colliding(yaw, pitch) == MinDist(pitch) < tubeRadius + bulbRadius - safety

\* faulty variant: the pitch candidate is not clamped
CandidatePitchFree(ny) == startHead.headX + ((ny - startHead.my) * pitchRange) \div 1000

\* faulty variant: the yaw delta is added to the arm's current yaw
CandidateYawFromCurrent(nx) ==
  Clamp(armYaw + ((nx - startHead.mx) * yawRange) \div 1000, minYaw, maxYaw)

\* candidate pose of onMove for a pointer at (nx, ny), in 1/1000 of the canvas
CandidateYaw(nx) == Clamp(startHead.armY + ((nx - startHead.mx) * yawRange) \div 1000, minYaw, maxYaw)
CandidatePitch(ny) ==
  Clamp(startHead.headX + ((ny - startHead.my) * pitchRange) \div 1000, minPitch, maxPitch)

\* faulty variant: a collision restores the pitch only
HeadPoseKeepYaw(nx, ny) ==
  IF Colliding(CandidateYaw(nx), CandidatePitch(ny))
  THEN [yaw |-> CandidateYaw(nx), pitch |-> headPitch]
  ELSE [yaw |-> CandidateYaw(nx), pitch |-> CandidatePitch(ny)]

\* faulty variant: the candidate is kept whether or not it collides
HeadPoseUngated(nx, ny) == [yaw |-> CandidateYaw(nx), pitch |-> CandidatePitch(ny)]

\* the pose onMove leaves: the candidate, or the old pose when it collides
HeadPose(nx, ny) ==
  IF Colliding(CandidateYaw(nx), CandidatePitch(ny))
  THEN [yaw |-> armYaw, pitch |-> headPitch]
  ELSE [yaw |-> CandidateYaw(nx), pitch |-> CandidatePitch(ny)]

\* props CoffeeCup derives from a deskPos value
DeskTopY(d) == d.y + deskHeight
YTop(d) == DeskTopY(d) + cupHalfHeightScaled + clearance

\* faulty variant: the desk rectangle is not applied
CupTargetUnclamped(p, off, c) == Pt(p.x + off.x, p.z + off.z)

\* handleMove of CoffeeCup: p.add(dragOffset.current), then the desk rectangle
\* around the deskCenter c its closure holds
CupTarget(p, off, c) ==
  IF deskEnabled
  THEN Pt(Min(Max(p.x + off.x, c.x - (halfW - edgeMargin)), c.x + (halfW - edgeMargin)),
          Min(Max(p.z + off.z, c.z - (halfD - edgeMargin)), c.z + (halfD - edgeMargin)))
  ELSE Pt(p.x + off.x, p.z + off.z)

\* handleMove of Desk: p.add(dragOffset.current), then the radius limit
DeskTarget(p, off) ==
  LET x == p.x + off.x
      z == p.z + off.z
      len == Sqrt(x * x + z * z)
  IN  IF len > radiusLimit
      THEN Pt((x * radiusLimit) \div len, (z * radiusLimit) \div len)
      ELSE Pt(x, z)

\* faulty variant: the offset is not added
LampTargetNoOffset(p, off) == Pt(p.x, p.z)

\* handleMove of Lamp: p.add(dragOffset.current)
LampTarget(p, off) == Pt(p.x + off.x, p.z + off.z)

\* isOverDesk, with the deskCenter of the last render
IsOverDesk ==
  /\ deskEnabled
  /\ Abs(pos.cup.x - deskProp.x) <= Max(0, halfW - edgeMargin)
  /\ Abs(pos.cup.z - deskProp.z) <= Max(0, halfD - edgeMargin)

\* a pointer event: the pointer in 1/1000 of the canvas, and its projection on
\* the cup's drag plane and on the ground plane (NoPoint: the ray misses it)
Events ==
  { [nx |-> 500, ny |-> 500, cup |-> Pt(-1500, 0),    ground |-> Pt(-1500, 0)],
    [nx |-> 750, ny |-> 625, cup |-> Pt(1500, 0),     ground |-> Pt(1500, 0)],
    [nx |-> 250, ny |-> 250, cup |-> Pt(-1500, 3000), ground |-> Pt(-1500, 3000)],
    [nx |-> 500, ny |-> 0,   cup |-> NoPoint,         ground |-> NoPoint] }

PhysicsEvents ==
  { [nx |-> 500, ny |-> 500, cup |-> Pt(-1500, 0), ground |-> Pt(-1500, 0)],
    [nx |-> 750, ny |-> 625, cup |-> Pt(1500, 0),  ground |-> Pt(1500, 0)] }

NoEvent == [nx |-> 0, ny |-> 0, cup |-> NoPoint, ground |-> NoPoint]

MaxCoord == 6000
MaxSessions == 2
InRange(p) == Abs(p.x) <= MaxCoord /\ Abs(p.z) <= MaxCoord

\* the component an object with a pointer-down handler belongs to
Component(o) == IF o = "head" THEN "lamp" ELSE o

\* the window listeners of o are registered and see a drag: those of cup, desk
\* and lamp are registered while draggable and close over dragging; the head's
\* are registered while the rendered draggingHead is true
Hears(o) == seen[o] /\ (o = "head" \/ draggable[Component(o)])

\* faulty variant: the cup commits whether or not the ray met the plane
CupMovesAnyRay(e) == Hears("cup") /\ dragOffset.cup.ok

\* which handlers of a window pointermove commit
CupMoves(e) == Hears("cup") /\ e.cup.ok /\ dragOffset.cup.ok
DeskMoves(e) == Hears("desk") /\ e.ground.ok /\ dragOffset.desk.ok
LampMoves(e) == Hears("lamp") /\ e.ground.ok /\ dragOffset.lamp.ok
HeadMoves(e) == Hears("head") /\ startHead.ok

\* the handlers a pointer-down reaches, nearest object first and each object's
\* ancestors after it (the head is a child of the lamp's group)
HitLists ==
  { <<"cup">>, <<"desk">>, <<"lamp">>, <<"head", "lamp">>, <<"cup", "desk">>,
    <<"lamp", "desk">>, <<"head", "lamp", "desk">> }

\* faulty variant: the event is never stopped
ReceiversNoStop(hits) ==
  {hits[i] : i \in {j \in 1 .. Len(hits) : draggable[Component(hits[j])]}}

\* the handlers that start a session: one without draggable returns before
\* e.stopPropagation(), the first with draggable stops the event
Receivers(hits) ==
  LET idx == {j \in 1 .. Len(hits) : draggable[Component(hits[j])]}
  IN  IF idx = {} THEN {} ELSE {hits[CHOOSE i \in idx : \A j \in idx : i <= j]}

\* a pointer-down on the objects of hits: onPointerDown of cup, desk, lamp and head
\* (events and frames are delivered once the mount effects have run)
PointerDown(hits, e) ==
  /\ didInit
  /\ focus \in {hits[1], "any"}
  /\ sessions < MaxSessions
  /\ sessions' = sessions + 1
  /\ \E started \in {Receivers(hits)} :
       /\ dragging' = [o \in Sessions |-> o \in started \/ dragging[o]]
       /\ sceneDragging' = IF started # {} THEN TRUE ELSE sceneDragging
       /\ dragOffset' =
            [o \in Objects |->
               IF o = "cup" /\ o \in started /\ e.cup.ok
               THEN Offset(pos.cup.x - e.cup.x, pos.cup.z - e.cup.z)
               ELSE IF o \in {"desk", "lamp"} /\ o \in started /\ e.ground.ok
               THEN Offset(pos[o].x - e.ground.x, pos[o].z - e.ground.z)
               ELSE IF o \in started
               THEN [dragOffset[o] EXCEPT !.own = dragging[o] /\ @]
               ELSE dragOffset[o]]
       /\ startHead' =
            IF "head" \in started
            THEN [ok |-> TRUE, mx |-> e.nx, my |-> e.ny, headX |-> headPitch, armY |-> armYaw]
            ELSE startHead
  /\ ev' = [kind |-> "down", o |-> hits[1], e |-> e, dt |-> 0, fresh |-> TRUE, first |-> FALSE,
            hit |-> FALSE, hits |-> hits]
  /\ UNCHANGED <<didInit, deskMovedInDrag, focus, draggable, deskEnabled, pos, seen, seenCenter, armYaw, headPitch, deskPos,
                 deskProp, reported, prevDeskOrigin, yVel, physics>>
  /\ UNCHANGED <<particleVars, liquidVars>>

\* a window pointermove: handleMove of cup, desk and lamp, and onMove of the head
PointerMove(e) ==
  LET cupTo == CupTarget(e.cup, dragOffset.cup, seenCenter)
      cupY == IF deskEnabled THEN YTop(seenCenter) ELSE pos.cup.y
      deskTo == DeskTarget(e.ground, dragOffset.desk)
      lampTo == LampTarget(e.ground, dragOffset.lamp)
      pose == HeadPose(e.nx, e.ny)
  IN  /\ didInit
      /\ CupMoves(e) => InRange(cupTo)
      /\ DeskMoves(e) => InRange(deskTo)
      /\ LampMoves(e) => InRange(lampTo)
      /\ pos' = [cup |-> IF CupMoves(e) THEN V3(cupTo.x, cupY, cupTo.z) ELSE pos.cup,
                 desk |-> IF DeskMoves(e) THEN V3(deskTo.x, pos.desk.y, deskTo.z) ELSE pos.desk,
                 lamp |-> IF LampMoves(e) THEN V3(lampTo.x, pos.lamp.y, lampTo.z) ELSE pos.lamp]
      /\ reported' = [cup |-> IF CupMoves(e) THEN V3(cupTo.x, cupY, cupTo.z) ELSE reported.cup,
                      lamp |-> IF LampMoves(e) THEN V3(lampTo.x, pos.lamp.y, lampTo.z)
                               ELSE reported.lamp]
      /\ deskPos' = IF DeskMoves(e) THEN V3(deskTo.x, pos.desk.y, deskTo.z) ELSE deskPos
      /\ armYaw' = IF HeadMoves(e) THEN pose.yaw ELSE armYaw
      /\ headPitch' = IF HeadMoves(e) THEN pose.pitch ELSE headPitch
      /\ ev' = [kind |-> "move", o |-> focus, e |-> e, dt |-> 0, fresh |-> FALSE,
                 first |-> ev.fresh,
                 hit |-> HeadMoves(e) /\ Colliding(CandidateYaw(e.nx), CandidatePitch(e.ny)),
                 hits |-> <<>>]
      /\ deskMovedInDrag' = (\/ deskMovedInDrag
                              \/ /\ dragging.cup \/ seen.cup
                                 /\ DeskMoves(e)
                                 /\ <<deskTo.x, deskTo.z>> # <<pos.desk.x, pos.desk.z>>)
      /\ UNCHANGED <<didInit, focus, draggable, deskEnabled, dragging, seen, dragOffset, seenCenter, startHead,
                     sceneDragging, deskProp, prevDeskOrigin, yVel, physics, sessions>>
      /\ UNCHANGED <<particleVars, liquidVars>>

\* a window pointerup: handleUp of cup, desk and lamp, and onUp of the head
PointerUp ==
  /\ didInit
  /\ dragging' = [o \in Sessions |-> IF Hears(o) THEN FALSE ELSE dragging[o]]
  /\ sceneDragging' = IF \E o \in Sessions : Hears(o) THEN FALSE ELSE sceneDragging
  /\ startHead' = IF seen.head THEN NoStart ELSE startHead
  /\ ev' = [kind |-> "up", o |-> focus, e |-> NoEvent, dt |-> 0, fresh |-> FALSE, first |-> FALSE, hit |-> FALSE, hits |-> <<>>]
  /\ UNCHANGED <<didInit, deskMovedInDrag, focus, draggable, deskEnabled, pos, seen, dragOffset, seenCenter, armYaw, headPitch,
                 deskPos, deskProp, reported, prevDeskOrigin, yVel, physics, sessions>>
  /\ UNCHANGED <<particleVars, liquidVars>>

\* faulty variant: the cup is put on the desk's centre
FollowedToCentre ==
  IF deskEnabled /\ (deskPos.x # prevDeskOrigin.x \/ deskPos.z # prevDeskOrigin.z)
  THEN V3(deskPos.x, YTop(deskPos), deskPos.z)
  ELSE pos.cup

\* the cup after the deskOrigin effect of a render that delivers deskPos
Followed ==
  IF deskEnabled /\ (deskPos.x # prevDeskOrigin.x \/ deskPos.z # prevDeskOrigin.z)
  THEN V3(pos.cup.x + (deskPos.x - prevDeskOrigin.x), YTop(deskPos),
          pos.cup.z + (deskPos.z - prevDeskOrigin.z))
  ELSE pos.cup

\* the argument of onPositionChange in the deskOrigin effect: gp is the group's
\* position object, read again after position.set has moved it by the delta
FollowReport ==
  V3(Followed.x + (deskPos.x - prevDeskOrigin.x), YTop(deskPos),
     Followed.z + (deskPos.z - prevDeskOrigin.z))

\* the initialPosition SceneCanvas passes to CoffeeCup for a deskPos d
InitialPosition(d) == V3(d.x, d.y + deskHeight + cupHalfHeightScaled + clearance, d.z)

\* faulty variant: the effect applies initialPosition whenever it is run
AppliedInitialEveryRender(p, d) == InitialPosition(d)

\* the didInit effect on a cup at p: "if (didInit.current) return", else the
\* position is set to initialPosition
AppliedInitial(p, d) == IF didInit THEN p ELSE InitialPosition(d)

\* the effects of a render of SceneCanvas and its children under the props dr:
\* the pending state becomes the props and the closures of the registered listeners
Effects(dr) ==
  \E cupRuns \in {dr.cup /\ (~draggable.cup \/ dragging.cup # seen.cup)} :
    /\ deskProp' = deskPos
    /\ prevDeskOrigin' = IF deskEnabled THEN deskPos ELSE prevDeskOrigin
    /\ pos' = [cup |-> AppliedInitial(Followed, deskPos),
               desk |-> pos.desk,
               lamp |-> IF deskPos # deskProp
                        THEN V3(deskPos.x + lampDX, DeskTopY(deskPos), deskPos.z + lampDZ)
                        ELSE pos.lamp]
    /\ reported' = [reported EXCEPT !.cup =
                      IF cupRuns THEN Followed
                      ELSE IF Followed # pos.cup THEN FollowReport ELSE @]
    /\ seen' = dragging
    /\ seenCenter' = IF cupRuns THEN deskPos ELSE seenCenter

\* a render after a state change
Render ==
  /\ didInit
  /\ dragging # seen \/ deskPos # deskProp
  /\ Effects(draggable)
  /\ ev' = [kind |-> "render", o |-> focus, e |-> NoEvent, dt |-> 0, fresh |-> ev.fresh,
            first |-> FALSE, hit |-> FALSE, hits |-> <<>>]
  /\ UNCHANGED <<didInit, deskMovedInDrag, focus, draggable, deskEnabled, dragging, dragOffset, startHead, armYaw,
                 headPitch, sceneDragging, deskPos, yVel, physics, sessions>>
  /\ UNCHANGED <<particleVars, liquidVars>>

\* a render that gives component c the prop draggable = b
SetDraggable(c, b) ==
  /\ draggable[c] # b
  /\ draggable' = [draggable EXCEPT ![c] = b]
  /\ Effects([draggable EXCEPT ![c] = b])
  /\ ev' = [kind |-> "draggable", o |-> c, e |-> NoEvent, dt |-> 0, fresh |-> ev.fresh,
            first |-> FALSE, hit |-> FALSE, hits |-> <<>>]
  /\ UNCHANGED <<didInit, deskMovedInDrag, focus, deskEnabled, dragging, dragOffset, startHead, armYaw,
                 headPitch, sceneDragging, deskPos, yVel, physics, sessions>>
  /\ UNCHANGED <<particleVars, liquidVars>>

\* the effects after the first commit, in the order of the source: Desk
\* reports its position; CoffeeCup initialises prevDeskOrigin, applies
\* initialPosition and reports it, and registers its listeners; Lamp reports
Mount ==
  /\ ~didInit
  /\ didInit' = TRUE
  /\ deskPos' = pos.desk
  /\ prevDeskOrigin' = IF deskEnabled THEN deskPos ELSE prevDeskOrigin
  /\ pos' = [pos EXCEPT !.cup = AppliedInitial(pos.cup, deskPos)]
  /\ reported' = [cup |-> AppliedInitial(pos.cup, deskPos), lamp |-> pos.lamp]
  /\ seen' = dragging
  /\ seenCenter' = deskPos
  /\ ev' = [kind |-> "mount", o |-> focus, e |-> NoEvent, dt |-> 0, fresh |-> FALSE,
            first |-> FALSE, hit |-> FALSE, hits |-> <<>>]
  /\ UNCHANGED <<deskMovedInDrag, focus, draggable, deskEnabled, dragging, dragOffset, startHead, armYaw,
                 headPitch, sceneDragging, deskProp, yVel, physics, sessions>>
  /\ UNCHANGED <<particleVars, liquidVars>>

\* "const floorStop = floorY + cupHalfHeightScaled"
FloorStop == floorY + cupHalfHeightScaled

\* faulty variant: nothing is integrated
FreeFallNoGravity(y, v, dt) == [y |-> y, v |-> v]

\* the free-fall branch of useFrame, dt in ticks of 1/60 s
FreeFall(y, v, dt) ==
  LET v1 == v - (gravity * dt) \div 60
      y1 == y + (v1 * dt) \div 60
  IN  IF y1 < FloorStop THEN [y |-> FloorStop, v |-> 0] ELSE [y |-> y1, v |-> v1]

\* faulty variant: the dragging test is missing
PhysicsAlwaysFalls(dt) ==
  IF ~physics THEN [y |-> pos.cup.y, v |-> yVel]
  ELSE IF IsOverDesk THEN [y |-> YTop(deskProp), v |-> 0]
  ELSE FreeFall(pos.cup.y, yVel, dt)

\* the physics block of useFrame: the cup's Y and yVel.current after it
Physics(dt) ==
  IF ~physics THEN [y |-> pos.cup.y, v |-> yVel]
  ELSE IF seen.cup
       THEN IF IsOverDesk THEN [y |-> YTop(deskProp), v |-> 0]
            ELSE [y |-> pos.cup.y, v |-> yVel]
       ELSE IF IsOverDesk THEN [y |-> YTop(deskProp), v |-> 0]
            ELSE FreeFall(pos.cup.y, yVel, dt)

\* the useFrame callback of CoffeeCup; now is performance.now() * 0.0015
CupFrame(dt, now) ==
  /\ didInit
  /\ \E r \in {Physics(dt)} :
       /\ pos' = [pos EXCEPT !.cup = V3(pos.cup.x, r.y, pos.cup.z)]
       /\ yVel' = r.v
  /\ IF coffee /\ geom.ok
     THEN \E base \in {Captured(originalPositions, geom.arr)} :
            /\ originalPositions' = base
            /\ geom' = Array(Rippled(geom.arr, base.arr, now))
     ELSE UNCHANGED <<geom, originalPositions>>
  /\ ev' = [kind |-> "frame", o |-> focus, e |-> NoEvent, dt |-> dt, fresh |-> ev.fresh,
            first |-> FALSE, hit |-> FALSE, hits |-> <<>>]
  /\ UNCHANGED <<didInit, deskMovedInDrag, focus, draggable, deskEnabled, dragging, seen, dragOffset, seenCenter, startHead, armYaw,
                 headPitch, sceneDragging, deskPos, deskProp, reported, prevDeskOrigin, physics,
                 sessions, coffee, variant, coffeeShader>>
  /\ UNCHANGED particleVars

\* a render of CoffeeCup with new props coffee and variant: the liquid mesh is
\* mounted, unmounted, or its geometry rebuilt from the new args
SetLiquidProps(c, v) ==
  /\ c # coffee \/ v # variant
  /\ coffee' = c
  /\ variant' = v
  /\ geom' = LiquidGeometry(c, v)
  /\ ev' = [kind |-> "props", o |-> focus, e |-> NoEvent, dt |-> 0, fresh |-> ev.fresh,
            first |-> FALSE, hit |-> FALSE, hits |-> <<>>]
  /\ UNCHANGED <<originalPositions, coffeeShader>>
  /\ UNCHANGED <<didInit, deskMovedInDrag, focus, draggable, deskEnabled, pos, dragging, seen, dragOffset, seenCenter, startHead,
                 armYaw, headPitch, sceneDragging, deskPos, deskProp, reported,
                 prevDeskOrigin, yVel, physics, sessions>>
  /\ UNCHANGED particleVars

DtFrames == {0, 3, 6}
Times == {0, 300, 700, 1100, 1600, 2000, 2500, 3100}
Variants == {"simple", "detailed"}

\* the cup mounted on the desk (SceneCanvas) or beside it
OnDesk == V3(deskStartX, deskStartY + deskHeight + cupHalfHeightScaled + clearance, 0)
OffDesk == V3(deskStartX + 3000, deskStartY + deskHeight + cupHalfHeightScaled + clearance, 0)
\* beside the desk, one 3-tick frame of fall above the floor stop
JustAboveFloor == V3(deskStartX + 3000, FloorStop + (((gravity * 3) \div 60) * 3 + 59) \div 60, 0)

\* CoffeeCup as SceneCanvas wires it, and with the defaults of its props
SceneWiring == [deskEnabled |-> TRUE, physics |-> TRUE, start |-> OnDesk, coffee |-> TRUE,
                variant |-> "detailed", coffeeShader |-> TRUE, mounted |-> TRUE]
BareCup == [deskEnabled |-> FALSE, physics |-> FALSE, start |-> OnDesk, coffee |-> TRUE,
            variant |-> "detailed", coffeeShader |-> TRUE, mounted |-> TRUE]

ParticlesIdle ==
  /\ meshes = SteamMounted
  /\ spread = defaultSpread
  /\ parts = [i \in Particles |-> InitialSeed(CHOOSE d \in Draws : TRUE, defaultSpread)]
  /\ elapsed = 0
  /\ frames = 0

InitSceneAs(foci, wirings, draggables) ==
  /\ ParticlesIdle
  /\ focus \in foci
  /\ draggable \in draggables
  /\ \E w \in wirings :
       /\ deskEnabled = w.deskEnabled
       /\ physics = w.physics
       /\ coffee = w.coffee
       /\ variant = w.variant
       /\ coffeeShader = w.coffeeShader
       /\ geom = LiquidGeometry(w.coffee, w.variant)
       /\ pos = [cup |-> w.start,
                 desk |-> V3(deskStartX, deskStartY, 0),
                 lamp |-> V3(deskStartX + lampDX, deskStartY + deskHeight, lampDZ)]
       /\ reported = [cup |-> w.start,
                      lamp |-> IF w.mounted
                               THEN V3(deskStartX + lampDX, deskStartY + deskHeight, lampDZ)
                               ELSE V3(0, 0, 0)]
       /\ didInit = w.mounted
       /\ deskMovedInDrag = FALSE
       /\ ev = [kind |-> IF w.mounted THEN "mount" ELSE "create", o |-> "none", e |-> NoEvent,
                dt |-> 0, fresh |-> FALSE, first |-> FALSE, hit |-> FALSE, hits |-> <<>>]
  /\ dragging = [o \in Sessions |-> FALSE]
  /\ seen = [o \in Sessions |-> FALSE]
  /\ dragOffset = [o \in Objects |-> NoOffset]
  /\ seenCenter = V3(deskStartX, deskStartY, 0)
  /\ startHead = NoStart
  /\ armYaw = 0
  /\ headPitch = initialPitch
  /\ sceneDragging = FALSE
  /\ deskPos = V3(deskStartX, deskStartY, 0)
  /\ deskProp = V3(deskStartX, deskStartY, 0)
  /\ prevDeskOrigin = V3(deskStartX, deskStartY, 0)
  /\ yVel = 0
  /\ sessions = 0
  /\ originalPositions = NoArray

\* the scene with every object draggable, as SceneCanvas mounts it
InitSceneWith(foci, wirings) == InitSceneAs(foci, wirings, {[c \in Objects |-> TRUE]})

InitDrag == InitSceneWith(Sessions, {SceneWiring, BareCup})

\* the scene with the dragged object's component draggable or not
InitGating ==
  /\ InitSceneAs(Sessions, {SceneWiring}, [Objects -> BOOLEAN])
  /\ \A c \in Objects \ {Component(focus)} : draggable[c]

\* the scene of SceneCanvas with pointer-downs landing on any of the objects
InitMulti == InitSceneWith({"any"}, {SceneWiring})

\* the cup with physics on and without the liquid disc, with and without desk props
InitPhysics ==
  InitSceneWith({"cup"}, {[deskEnabled |-> b, physics |-> TRUE, start |-> st, coffee |-> FALSE,
                           variant |-> "detailed", coffeeShader |-> TRUE, mounted |-> TRUE] :
                             b \in BOOLEAN, st \in {OnDesk, OffDesk, JustAboveFloor}})

InitLiquid ==
  InitSceneWith({"none"}, {[deskEnabled |-> FALSE, physics |-> FALSE, start |-> OnDesk,
                            coffee |-> c, variant |-> v, coffeeShader |-> sh,
                            mounted |-> TRUE] :
                              c \in BOOLEAN, v \in Variants, sh \in BOOLEAN})

SceneStep(events, times, dts) ==
  \/ \E hits \in HitLists, e \in events : PointerDown(hits, e)
  \/ \E e \in events : PointerMove(e)
  \/ PointerUp
  \/ Render
  \/ \E dt \in dts, now \in times : CupFrame(dt, now)

\* dragging, with the cup resting on the desk: one frame length
DragStep == SceneStep(Events, {0}, {3})
PhysicsStep == SceneStep(PhysicsEvents, {0}, DtFrames)

LiquidStep ==
  \/ \E dt \in DtFrames, now \in Times : CupFrame(dt, now)
  \/ \E c \in BOOLEAN, v \in Variants : SetLiquidProps(c, v)

\* dragging several objects in one run
MultiStep == SceneStep(PhysicsEvents, {0}, {3})

SpecDrag == InitDrag /\ [][DragStep]_vars

SpecMulti == InitMulti /\ [][MultiStep]_vars

\* dragging while the draggable prop of the dragged object's component changes
GatingStep ==
  \/ SceneStep(PhysicsEvents, {0}, {3})
  \/ \E b \in BOOLEAN : SetDraggable(Component(focus), b)

SpecGating == InitGating /\ [][GatingStep]_vars

\* SceneCanvas from its first commit: the group is at the position of its JSX,
\* cupPos and lampPos hold their initial state, no effect has run
FreshScene == [SceneWiring EXCEPT !.start = V3(0, 0, 0), !.mounted = FALSE]

InitFresh == InitSceneWith({"any"}, {FreshScene})

\* the effects of the mount run before any event or frame is delivered
MountStep == Mount \/ MultiStep

SpecMount == InitFresh /\ [][MountStep]_vars

SpecPhysics == InitPhysics /\ [][PhysicsStep]_vars

SpecPhysicsFair ==
  SpecPhysics /\ WF_vars(\E dt \in DtFrames \ {0}, now \in {0} : CupFrame(dt, now))

SpecLiquid == InitLiquid /\ [][LiquidStep]_vars

-----------------------------------------------------------------------------
(* Claims about dragging.                                                     *)

\* the plane projection a drag of o uses
Projected(o, e) == IF o = "cup" THEN e.cup ELSE e.ground

\* C4, as stated: the pointer-down that starts a drag leaves the object's
\* position unchanged, and the first pointer-move of that session commits X/Z
\* equal to the projected plane point plus the offset stored at pointer-down,
\* exactly.
C4_Original ==
  [][ /\ (ev'.kind = "down" => pos' = pos)
      /\ (/\ ev'.kind = "move" /\ ev'.first
          /\ focus \in Objects /\ dragging[focus] /\ seen[focus]
          /\ Projected(focus, ev'.e).ok /\ dragOffset[focus].ok
          => /\ pos'[focus].x = Projected(focus, ev'.e).x + dragOffset[focus].x
             /\ pos'[focus].z = Projected(focus, ev'.e).z + dragOffset[focus].z) ]_vars

\* the X/Z limit each object applies to a drag target
C4_Limited(o, x, z) ==
  IF o = "cup"
  THEN IF deskEnabled
       THEN Pt(Clamp(x, seenCenter.x - (halfW - edgeMargin), seenCenter.x + (halfW - edgeMargin)),
               Clamp(z, seenCenter.z - (halfD - edgeMargin), seenCenter.z + (halfD - edgeMargin)))
       ELSE Pt(x, z)
  ELSE IF o = "desk"
  THEN IF Sqrt(x * x + z * z) > radiusLimit
       THEN Pt((x * radiusLimit) \div Sqrt(x * x + z * z), (z * radiusLimit) \div Sqrt(x * x + z * z))
       ELSE Pt(x, z)
  ELSE Pt(x, z)

\* C4, amended: a pointer-down changes no position.  A pointer-move handled by
\* listeners registered with dragging = true, with a projection and a stored
\* offset, commits X/Z = projection + dragOffset.current after the object's
\* limit (cup: the desk rectangle; desk: the radius 4.0; lamp: none); any other
\* pointer-move leaves the object where it is.
C4_Continuity ==
  [][ /\ (ev'.kind = "down" => pos' = pos)
      /\ (ev'.kind = "move" /\ focus \in Objects
          => IF seen[focus] /\ Projected(focus, ev'.e).ok /\ dragOffset[focus].ok
             THEN /\ Pt(pos'[focus].x, pos'[focus].z) =
                       C4_Limited(focus, Projected(focus, ev'.e).x + dragOffset[focus].x,
                                         Projected(focus, ev'.e).z + dragOffset[focus].z)
             ELSE pos'[focus] = pos[focus]) ]_vars

\* a first move of a desk drag was committed, and the radius limit changed it
C4_Witness ==
  /\ ev.kind = "move" /\ ev.first
  /\ focus = "desk" /\ seen.desk /\ ev.e.ground.ok /\ dragOffset.desk.ok
  /\ pos.desk.x # ev.e.ground.x + dragOffset.desk.x

\* C5, as stated: every window pointer-up ends the active drag session of the
\* cup, desk, lamp body and lamp head: afterwards no dragging flag is set and
\* onDragChange(false) has been called, whatever the order of pointer-down,
\* re-registration of the listeners and pointer-up.
C5_PointerUpEnds ==
  [][ ev'.kind = "up" => (\A o \in Sessions : ~dragging'[o]) /\ ~sceneDragging' ]_vars

\* C6: a head-drag pointer-move whose candidate pose puts the bulb closer than
\* stemRadius + 0.07 - 0.01 to a sampled stem segment leaves armYaw and
\* headPitch as they were.
C6_CollisionGate ==
  [][ /\ ev'.kind = "move"
      /\ seen.head /\ startHead.ok
      /\ MinDist(CandidatePitch(ev'.e.ny)) < tubeRadius + 700 - 100
      => armYaw' = armYaw /\ headPitch' = headPitch ]_vars

\* a colliding candidate was rejected although its yaw differed from the arm's
C6_Witness ==
  /\ ev.kind = "move" /\ ev.hit
  /\ focus = "head" /\ startHead.ok
  /\ CandidateYaw(ev.e.nx) # armYaw

-----------------------------------------------------------------------------
(* Claims about the cup's physics.                                            *)

\* the cup is neither dragged nor over the desk
Falling == physics /\ ~seen.cup /\ ~dragging.cup /\ ~IsOverDesk

\* C7, as stated: with physics on, the cup not dragged and not over the desk,
\* each frame with dt > 0 strictly lowers the cup until it reaches
\* floorY + cupHalfHeight * scale, never below it; once there the height stays
\* and the velocity is 0 at the end of every frame.
C7_DropMonotone ==
  [][ ev'.kind = "frame" /\ Falling
      => /\ (pos.cup.y > FloorStop /\ ev'.dt > 0
               => pos'.cup.y < pos.cup.y /\ pos'.cup.y >= FloorStop)
         /\ (pos.cup.y = FloorStop => pos'.cup.y = FloorStop)
         /\ (pos'.cup.y = FloorStop => yVel' = 0) ]_vars

C9_ReachesFloor ==
  /\ (physics /\ ~seen.cup /\ ~IsOverDesk)
       ~> (pos.cup.y = FloorStop \/ seen.cup \/ IsOverDesk)
  /\ [][ ev'.kind = "frame" /\ physics /\ ~seen.cup /\ ~IsOverDesk /\ pos.cup.y = FloorStop
         => pos'.cup.y = FloorStop ]_vars

\* the cup lies on the floor beside the desk after a frame
C9_Witness ==
  /\ ev.kind = "frame" /\ ev.dt > 0
  /\ physics /\ ~seen.cup /\ ~IsOverDesk
  /\ pos.cup.y = FloorStop /\ yVel = 0

-----------------------------------------------------------------------------
(* Claims about the liquid disc.                                              *)

\* C10: the rest-position array is captured exactly once, by the first frame
\* that finds the liquid geometry, as a copy of that geometry's array; no later
\* frame or event writes to it or replaces it, while the live array changes.
C10_RestImmutable ==
  [][ /\ (originalPositions.ok => originalPositions' = originalPositions)
      /\ (~originalPositions.ok /\ originalPositions'.ok
            => ev'.kind = "frame" /\ coffee /\ geom.ok /\ originalPositions'.arr = geom.arr)
      /\ (ev'.kind = "frame" /\ coffee /\ geom.ok => originalPositions'.ok) ]_vars

\* a frame rippled a geometry that replaced the one the rest array was copied from
C10_Witness ==
  /\ ev.kind = "frame"
  /\ originalPositions.ok /\ geom.ok
  /\ Len(geom.arr) # Len(originalPositions.arr)
  /\ \E i \in 1 .. Len(geom.arr) :
       i <= Len(originalPositions.arr) /\ geom.arr[i][2] # originalPositions.arr[i][2]

\* ---------------------------------------------------------------------------
\* liquid update rule and geometry consistency

\* C11: at the end of every frame after capture, a vertex whose rest height is
\* not positive has its rest height as live height, and a vertex whose rest
\* height is positive has live height rest + wave with |wave| <= 0.005, the
\* wave being that of some clock value applied to the rest height
C11_UpdateRule ==
  [][ev'.kind = "frame" /\ coffee /\ geom.ok /\ originalPositions'.ok
     => \A i \in 1 .. Min(Len(geom'.arr), Len(originalPositions'.arr)) :
          LET rest == originalPositions'.arr[i][2]
              live == geom'.arr[i]
          IN  /\ rest <= 0 => live[2] = rest
              /\ rest > 0 =>
                   /\ Abs(live[2] - rest) <= 5000
                   /\ \E t \in Times : live[2] = rest + Wave(live[1], live[3], t)]_vars

\* C12: on every frame that displaces the liquid, the captured rest array has
\* the length of the geometry being displaced and holds that geometry's rest
\* positions
C12_GeometryConsistent ==
  [][ev'.kind = "frame" /\ coffee /\ geom.ok
     => /\ Len(originalPositions'.arr) = Len(geom'.arr)
        /\ originalPositions'.arr = LiquidGeometry(coffee, variant).arr]_vars

\* ---------------------------------------------------------------------------
\* drag boundary

\* C13: every position a drag move commits lies inside the boundary: the cup
\* with desk props within halfW - edgeMargin and halfD - edgeMargin of the desk
\* centre its props give it (for a move that leaves the desk where the props
\* say), the desk within radiusLimit of the origin (distances to the 1/1000 the
\* positions are held in)
C13_DragBoundary ==
  [][ev'.kind = "move"
     => /\ CupMoves(ev'.e) /\ deskEnabled /\ deskPos' = deskProp
           => /\ Abs(pos'.cup.x - deskProp.x) <= halfW - edgeMargin
              /\ Abs(pos'.cup.z - deskProp.z) <= halfD - edgeMargin
        /\ DeskMoves(ev'.e)
           => Sqrt(pos'.desk.x * pos'.desk.x + pos'.desk.z * pos'.desk.z) <= radiusLimit]_vars

\* ---------------------------------------------------------------------------
\* reported position

\* C14: after every drag move of the cup, every desk-follow move and every
\* physics frame, the position last passed to onPositionChange is the
\* position of the cup's group
C14_ReportedTracks ==
  [][\/ ev'.kind = "move" /\ CupMoves(ev'.e)
     \/ ev'.kind = "render" /\ Followed # pos.cup
     \/ ev'.kind = "frame" /\ physics
     => reported'.cup = pos'.cup]_vars

\* ---------------------------------------------------------------------------
\* sessions and the scene's dragging flag

\* C15: the scene's dragging flag is true exactly while cup, desk, lamp body or
\* lamp head has an active drag session
C15_OrbitGating == sceneDragging = (\E o \in Sessions : dragging[o])

\* C16: at most one of cup, desk, lamp body and lamp head has an active drag
\* session at any time
C16_SingleSession == Cardinality({o \in Sessions : dragging[o]}) <= 1

\* ---------------------------------------------------------------------------
\* lamp pose

\* C17: after any sequence of head-drag pointer events armYaw is within
\* [-0.75 PI, 0.75 PI] and headPitch within [-PI, 0.25 PI]
C17_PoseRange ==
  /\ -750 <= armYaw /\ armYaw <= 750
  /\ -1000 <= headPitch /\ headPitch <= 250

\* a head move whose pointer asks for a pitch below -PI has left the head at -PI
C17_Witness ==
  /\ ev.kind = "move" /\ seen.head /\ startHead.ok
  /\ startHead.headX + ((ev.e.ny - startHead.my) * pitchRange) \div 1000 < -1000
  /\ headPitch = -1000
  /\ armYaw # 0

\* ---------------------------------------------------------------------------
\* the cup follows the desk

\* C18: the first deskOrigin only initialises the reference and leaves the cup
\* at its initial position; a render that delivers a deskOrigin differing from
\* the previous one by (dx, dz), not both zero, moves the cup's x and z by
\* exactly (dx, dz), so that its offset from the desk is the same afterwards
C18_FollowsDesk ==
  /\ ev.kind = "mount" => prevDeskOrigin = deskProp /\ pos.cup = OnDesk
  /\ [][ev'.kind = "render" /\ deskEnabled
          /\ (deskPos.x # deskProp.x \/ deskPos.z # deskProp.z)
        => /\ pos'.cup.x - pos.cup.x = deskPos.x - deskProp.x
           /\ pos'.cup.z - pos.cup.z = deskPos.z - deskProp.z
           /\ pos'.cup.x - deskProp'.x = pos.cup.x - deskProp.x
           /\ pos'.cup.z - deskProp'.z = pos.cup.z - deskProp.z]_vars

\* the desk has been moved and rendered, and the cup, dragged off the desk's
\* centre before, has followed it
C18_Witness ==
  /\ ev.kind = "render" /\ deskEnabled
  /\ deskProp.x # deskStartX
  /\ prevDeskOrigin = deskProp
  /\ pos.cup.x # deskProp.x
  /\ reported.cup.x # pos.cup.x

\* ---------------------------------------------------------------------------
\* the particle fountain

\* C19: with speedRange[0] > 0 and frames with dt > 0 arriving, every particle
\* is respawned again and again (its height drops only when it is recycled)
C19_FountainRuns ==
  \A i \in Particles : []<><<parts'[i].y < parts[i].y>>_vars

\* a particle back in the respawn band while another is above the rim: since
\* every frame with dt > 0 lifts each particle out of the band, the first has
\* been recycled
C19_Witness ==
  /\ speedMin > 0
  /\ \E i, j \in Particles :
       /\ parts[i].y < baseY + respawnBand
       /\ parts[j].y > rimY

\* ---------------------------------------------------------------------------
\* draggable

\* C20: while the draggable prop of an object's component is false, no
\* pointer-down, pointer-move or pointer-up changes the object's position (the
\* head's pose) or its drag state
C20_DraggableGates ==
  [][ev'.kind \in {"down", "move", "up"}
     => \A o \in Sessions :
          ~draggable[Component(o)]
          => /\ dragging'[o] = dragging[o]
             /\ o = "head" => armYaw' = armYaw /\ headPitch' = headPitch /\ startHead' = startHead
             /\ o \in Objects => pos'[o] = pos[o] /\ dragOffset'[o] = dragOffset[o]]_vars

\* ---------------------------------------------------------------------------
\* failed projection

\* C21: a pointer-move during an active drag of cup, desk or lamp body whose
\* ray does not meet the drag plane leaves every position unchanged, passes
\* nothing to onPositionChange or onDragChange, and leaves the session (its
\* dragging flag and its stored offset) as it was
C21_FailedProjection ==
  [][ev'.kind = "move" /\ focus \in Objects /\ Hears(focus)
       /\ ~Projected(focus, ev'.e).ok
     => /\ pos' = pos
        /\ reported' = reported
        /\ deskPos' = deskPos
        /\ dragging' = dragging
        /\ sceneDragging' = sceneDragging
        /\ dragOffset' = dragOffset]_vars

\* a cup drag that had already carried the cup away from its mount position
\* received a move whose ray missed the plane, and is still active
C21_Witness ==
  /\ ev.kind = "move" /\ focus = "cup"
  /\ Hears("cup") /\ dragging.cup /\ dragOffset.cup.ok
  /\ ~ev.e.cup.ok
  /\ pos.cup.x # OnDesk.x

\* ---------------------------------------------------------------------------
\* the ripple and the shader

\* C22: the frame callback displaces the liquid's vertices only when the
\* custom shader is not used; with coffeeShader = true a frame leaves the
\* liquid's vertex buffer unchanged
C22_RippleOnlyWithoutShader ==
  [][ev'.kind = "frame" /\ coffeeShader => geom' = geom]_vars

\* ---------------------------------------------------------------------------
\* initialPosition

\* C23: initialPosition is applied by the mount and never again: didInit stays
\* set, and a later render, whatever initialPosition it carries, changes the
\* cup's x and z by the desk's displacement only, so a cup that stands off the
\* desk's centre is never put back on the initialPosition of that render
C23_InitialOnce ==
  [][/\ didInit => didInit'
     /\ ~didInit => pos'.cup = InitialPosition(deskPos)
     /\ didInit /\ ev'.kind \in {"render", "draggable"}
        => /\ pos'.cup.x = pos.cup.x + (deskPos.x - prevDeskOrigin.x)
           /\ pos'.cup.z = pos.cup.z + (deskPos.z - prevDeskOrigin.z)
           /\ (pos.cup.x # prevDeskOrigin.x \/ pos.cup.z # prevDeskOrigin.z)
              => pos'.cup # InitialPosition(deskPos)]_vars

\* after the mount the cup was dragged off the centre, the desk was moved, and
\* the render that carried the new initialPosition left the cup off it
C23_Witness ==
  /\ didInit /\ ev.kind = "render"
  /\ deskProp.x # deskStartX
  /\ pos.cup # InitialPosition(deskProp)
  /\ pos.cup.x # OnDesk.x

\* ---------------------------------------------------------------------------
\* containment as a projection

\* C24: in a frame, a particle that the integration and the swirl leave below
\* rimY + 0.005 and farther from the axis than the allowed radius (which is
\* positive) has its x and z multiplied by one positive factor, so that its
\* radial distance becomes the allowed radius (to the 0.0002 the positions are
\* held in) and its direction around the axis is unchanged; a particle within
\* the allowed radius keeps the x and z the swirl gave it
C24_Projection ==
  [][frames' = frames + 1
     => \A i \in Particles :
          \E p \in {Drift(i, elapsed' - elapsed, elapsed')} :
            \E allowedR \in {AllowedR(p.x, p.y, p.z)}, rr \in {Sqrt(p.x * p.x + p.z * p.z)} :
              p.y < rimY + rimSlack
              => IF rr > allowedR
                 THEN allowedR > 0
                      => /\ Sqrt(Radius2(parts'[i])) \in allowedR - 2 .. allowedR + 2
                         /\ parts'[i].x * p.x >= 0 /\ parts'[i].z * p.z >= 0
                         /\ Abs(parts'[i].x * p.z - parts'[i].z * p.x) <= 2 * rr
                 ELSE parts'[i].x = p.x /\ parts'[i].z = p.z]_vars

\* a frame has left a particle below rimY + 0.005 on the allowed radius, off
\* both axes, while another particle of the same frame is inside it
C24_Witness ==
  /\ frames > 0
  /\ \E i, j \in Particles :
       /\ parts[i].y > seedBand /\ parts[i].y < rimY + rimSlack
       /\ parts[i].x # 0 /\ parts[i].z # 0
       /\ AtWall(parts[i])
       /\ parts[j].y < rimY + rimSlack /\ ~AtWall(parts[j])

\* ---------------------------------------------------------------------------
\* the steam columns

\* C25: at the end of every frame, column i's local x is within wobble of
\* cos(2 PI i / columns) * spread, its z within wobble of
\* sin(2 PI i / columns) * spread and |y| <= 0.03, however many frames have
\* run, and its material's uTime is elapsed * speed * (1 + 0.07 i)
C25_SteamAnchored ==
  frames > 0
  => \A i \in Columns :
       /\ Abs(meshes[i].x - (Cos((2000 * i) \div columns) * steamSpread) \div 1000) <= wobble
       /\ Abs(meshes[i].z - (Sin((2000 * i) \div columns) * steamSpread) \div 1000) <= wobble
       /\ Abs(meshes[i].y) <= 300
       /\ meshes[i].uTime * 100 = elapsed * 5500 * (100 + 7 * i)

\* after several frames and some seconds a column is displaced along x by more
\* than half the wobble and the columns' uTime values have come apart
C25_Witness ==
  /\ frames >= 4 /\ elapsed >= 120
  /\ \E i \in Columns : Abs(meshes[i].x - Offsets(i).x) * 2 > wobble
  /\ \A i, j \in Columns : i # j => meshes[i].uTime # meshes[j].uTime

\* ---------------------------------------------------------------------------
\* the lamp head within a session

\* C26: the pose a head move asks for is clamp(angles recorded at pointer-down
\* + (pointer - pointer at pointer-down) * range): a move that is not rejected
\* leaves exactly that pose, whatever moves came before it, and a move with
\* the pointer back where the pointer-down was asks for, and leaves, the pose
\* recorded at pointer-down
C26_PathIndependent ==
  [][ev'.kind = "move" /\ HeadMoves(ev'.e)
     => \E cy \in {Clamp(startHead.armY + ((ev'.e.nx - startHead.mx) * 1000) \div 1000, -750, 750)},
           cp \in {Clamp(startHead.headX + ((ev'.e.ny - startHead.my) * 800) \div 1000, -1000, 250)} :
          /\ \/ armYaw' = cy /\ headPitch' = cp
             \/ armYaw' = armYaw /\ headPitch' = headPitch
          /\ ~ev'.hit => armYaw' = cy /\ headPitch' = cp
          /\ ev'.e.nx = startHead.mx /\ ev'.e.ny = startHead.my
             => /\ cy = startHead.armY /\ cp = startHead.headX
                /\ armYaw' = startHead.armY /\ headPitch' = startHead.headX]_vars

\* in a session that started from a pose other than the initial one, a move
\* away from the pointer-down position was accepted and changed the yaw
C26_Witness ==
  /\ ev.kind = "move" /\ ~ev.hit
  /\ focus = "head" /\ seen.head /\ startHead.ok
  /\ startHead.armY # 0
  /\ ev.e.nx # startHead.mx
  /\ armYaw # startHead.armY

\* C27: the initial pose keeps the bulb at least stemRadius + 0.07 - 0.01 from
\* every sampled stem segment, and so does the pose after any sequence of
\* head-drag pointer events
C27_NeverColliding ==
  /\ MinDist(initialPitch) >= tubeRadius + 700 - 100
  /\ MinDist(headPitch) >= tubeRadius + 700 - 100

\* a head move was accepted and changed yaw and pitch, in a session in which
\* another pointer position asks for a colliding pose
C27_Witness ==
  /\ ev.kind = "move" /\ ~ev.hit
  /\ focus = "head" /\ seen.head /\ startHead.ok
  /\ headPitch # initialPitch /\ armYaw # 0
  /\ \E e \in Events : Colliding(CandidateYaw(e.nx), CandidatePitch(e.ny))

\* ---------------------------------------------------------------------------
\* the offset of a session

\* C28: the offset a pointer-move adds to the projected point was stored by
\* the pointer-down that started the session the move belongs to, also when
\* that pointer-down found no point on the drag plane
C28_OffsetOfSession ==
  [][ev'.kind = "move"
     => /\ CupMoves(ev'.e) => dragOffset.cup.own
        /\ DeskMoves(ev'.e) => dragOffset.desk.own
        /\ LampMoves(ev'.e) => dragOffset.lamp.own]_vars

\* ---------------------------------------------------------------------------
\* dragging and free fall

====
